---- MODULE Spec2Model ----
(***************************************************************************)
(* Credit ledger of the NHS Supporting Information Generator: the users,   *)
(* packages, purchases and credit_usage tables (database/models.py), the   *)
(* ledger functions of services/database_service.py, the Stripe webhook    *)
(* handlers of services/stripe_service.py and the Tally submission flow of *)
(* routers/webhook.py.                                                     *)
(*                                                                         *)
(* A table is a function from the keys of its rows to the rows; a row that *)
(* scalar_one_or_none() does not find is a key outside the DOMAIN.  A      *)
(* nullable column is a set of at most one value ({} is NULL).  A user's   *)
(* uuid and its unique email name the same row, so the email is the key.   *)
(* Time is an integer clock, datetime.utcnow() reads it.                   *)
(***************************************************************************)
EXTENDS Integers, Sequences, FiniteSets, Bags, TLC

VARIABLES
    users,          \* table users: email -> [credits, is_unlimited, unlimited_expires_at]
    packages,       \* table packages: id -> [package_type, credits, price_gbp, is_active]
    purchases,      \* table purchases: stripe_session_id -> [user_id, package_id, credits_purchased, status]
    credit_usage,   \* table credit_usage: bag of [user_id, credits_used]
    now,            \* the clock
    tasks,          \* bag of handlers and background tasks suspended at an await
    granted,        \* history: stripe_session_id -> number of add_credits calls made for it
    credited,       \* history: email -> sum of the amounts add_credits added to the row
    debited,        \* history: email -> sum of the amounts deduct_credit took from the row
    requests,       \* number of requests received (submissions, checkouts, Stripe events, admin calls)
    outbox,         \* bag of the emails handed to the notification provider
    processed,      \* history: email -> the subscription events applied to its row, in order
    ret             \* the call or request that has just returned, and its result

vars == <<users, packages, purchases, credit_usage, now, tasks, granted,
          credited, debited, requests, outbox, processed, ret>>

(***************************************************************************)
(* Bounds of the model.                                                    *)
(***************************************************************************)
MaxBalance == 3
MaxAmount == 2
MaxTime == 2
MaxRequests == 5

Emails == {"a@x.com", "b@x.com"}
PackageIds == {"starter", "unlimited"}
SessionIds == 1..MaxRequests
Amounts == 1..MaxAmount
Prices == {19, 29}
Expiries == {{}} \cup {{t} : t \in 1..MaxTime}

(***************************************************************************)
(* database_service.py: the ledger functions, as functions of the users    *)
(* table U.                                                                *)
(***************************************************************************)
NewUser == [credits |-> 0, is_unlimited |-> FALSE, unlimited_expires_at |-> {}]

get_or_create_user(U, email) ==
    IF email \in DOMAIN U THEN U ELSE (email :> NewUser) @@ U

\* Faulty variant: the flag alone decides, the expiry is never looked at.
UnlimitedActive_ignores_expiry(user, t) ==
    user.is_unlimited

\* The test both check_user_credits and deduct_credit make of a row.
UnlimitedActive(user, t) ==
    /\ user.is_unlimited
    /\ \/ user.unlimited_expires_at = {}
       \/ \E x \in user.unlimited_expires_at : x > t

\* Faulty variant: an unknown email is answered like a row without credits.
check_user_credits_absent_as_row(U, email, t) ==
    IF email \notin DOMAIN U THEN <<FALSE, -1>>
    ELSE IF UnlimitedActive(U[email], t) THEN <<TRUE, -1>>
    ELSE <<U[email].credits > 0, U[email].credits>>

\* Faulty variant: the balance is looked at before the subscription.
check_user_credits_balance_first(U, email, t) ==
    IF email \notin DOMAIN U THEN <<FALSE, 0>>
    ELSE IF U[email].credits <= 0 THEN <<FALSE, U[email].credits>>
    ELSE IF UnlimitedActive(U[email], t) THEN <<TRUE, -1>>
    ELSE <<TRUE, U[email].credits>>

\* Faulty variant: a balance of zero counts as capacity.
check_user_credits_zero_is_capacity(U, email, t) ==
    IF email \notin DOMAIN U THEN <<FALSE, 0>>
    ELSE IF UnlimitedActive(U[email], t) THEN <<TRUE, -1>>
    ELSE <<U[email].credits >= 0, U[email].credits>>

check_user_credits(U, email, t) ==
    IF email \notin DOMAIN U THEN <<FALSE, 0>>
    ELSE IF UnlimitedActive(U[email], t) THEN <<TRUE, -1>>
    ELSE <<U[email].credits > 0, U[email].credits>>

\* Faulty variant: the balance is not compared with the amount.
deduct_check_no_balance_test(U, user_id, credits, t) ==
    IF user_id \notin DOMAIN U THEN "not_found"
    ELSE IF UnlimitedActive(U[user_id], t) THEN "return"
    ELSE "update"

\* Faulty variant: no early return for an active unlimited subscription.
deduct_check_charges_unlimited(U, user_id, credits, t) ==
    IF user_id \notin DOMAIN U THEN "not_found"
    ELSE IF U[user_id].credits < credits THEN "insufficient"
    ELSE "update"

\* deduct_credit up to its UPDATE: the row read by get_user_by_id and the
\* checks made on it.  "update" is the case that goes on to the UPDATE.
deduct_check(U, user_id, credits, t) ==
    IF user_id \notin DOMAIN U THEN "not_found"
    ELSE IF UnlimitedActive(U[user_id], t) THEN "return"
    ELSE IF U[user_id].credits < credits THEN "insufficient"
    ELSE "update"

\* Faulty variant: one credit is taken whatever the amount asked.
deduct_update_by_one(U, user_id, credits) ==
    IF user_id \in DOMAIN U
    THEN [U EXCEPT ![user_id].credits = @ - 1]
    ELSE U

\* Faulty variant: the UPDATE has no WHERE on the id.
deduct_update_every_row(U, user_id, credits) ==
    [e \in DOMAIN U |-> [U[e] EXCEPT !.credits = @ - credits]]

\* The UPDATE of deduct_credit: relative, on the row as it is when it runs.
deduct_update(U, user_id, credits) ==
    IF user_id \in DOMAIN U
    THEN [U EXCEPT ![user_id].credits = @ - credits]
    ELSE U

\* deduct_credit run without interruption.
deduct_credit(U, user_id, credits, t) ==
    LET d == deduct_check(U, user_id, credits, t)
    IN  [users  |-> IF d = "update" THEN deduct_update(U, user_id, credits) ELSE U,
         result |-> IF d \in {"not_found", "insufficient"} THEN d ELSE "ok"]

\* Faulty variant: the UPDATE writes the amount instead of adding it to the column.
add_credits_absolute(U, user_id, credits) ==
    IF user_id \in DOMAIN U
    THEN [U EXCEPT ![user_id].credits = credits]
    ELSE U

add_credits(U, user_id, credits) ==
    IF user_id \in DOMAIN U
    THEN [U EXCEPT ![user_id].credits = @ + credits]
    ELSE U

activate_subscription(U, user_id, expires_at) ==
    IF user_id \in DOMAIN U
    THEN [U EXCEPT ![user_id].is_unlimited = TRUE,
                   ![user_id].unlimited_expires_at = expires_at]
    ELSE U

\* Faulty variant: the expiry is cleared but the flag is left set.
deactivate_subscription_keeps_flag(U, user_id) ==
    IF user_id \in DOMAIN U
    THEN [U EXCEPT ![user_id].unlimited_expires_at = {}]
    ELSE U

deactivate_subscription(U, user_id) ==
    IF user_id \in DOMAIN U
    THEN [U EXCEPT ![user_id].is_unlimited = FALSE,
                   ![user_id].unlimited_expires_at = {}]
    ELSE U

(***************************************************************************)
(* The state after construction: empty tables, and the package catalogue   *)
(* the admin created (create_package sets is_active).                      *)
(***************************************************************************)
Catalogue ==
    [p \in PackageIds |->
        IF p = "starter"
        THEN [package_type |-> "one_time", credits |-> {2},
              price_gbp |-> 19, is_active |-> TRUE]
        ELSE [package_type |-> "subscription", credits |-> {},
              price_gbp |-> 49, is_active |-> TRUE]]

NoCall == [op |-> "none", user |-> "", n |-> 0, result |-> "none"]

Init ==
    /\ users = <<>>
    /\ packages = Catalogue
    /\ purchases = <<>>
    /\ credit_usage = EmptyBag
    /\ now = 0
    /\ tasks = EmptyBag
    /\ granted = <<>>
    /\ credited = [e \in Emails |-> 0]
    /\ debited = [e \in Emails |-> 0]
    /\ requests = 0
    /\ outbox = EmptyBag
    /\ processed = [e \in Emails |-> <<>>]
    /\ ret = NoCall

(***************************************************************************)
(* The ledger functions called one after another, each to completion.      *)
(***************************************************************************)
system == <<packages, purchases, credit_usage, tasks, granted, credited,
            debited, requests, outbox,
           processed>>

CallGetOrCreateUser(email) ==
    /\ users' = get_or_create_user(users, email)
    /\ ret' = [op |-> "get_or_create_user", user |-> email, n |-> 0, result |-> "ok"]
    /\ UNCHANGED <<now, system>>

CallCheckUserCredits(email) ==
    /\ ret' = [op |-> "check_user_credits", user |-> email, n |-> 0,
               result |-> check_user_credits(users, email, now)]
    /\ UNCHANGED <<users, now, system>>

CallDeductCredit(user_id, credits) ==
    LET r == deduct_credit(users, user_id, credits, now)
    IN  /\ users' = r.users
        /\ ret' = [op |-> "deduct_credit", user |-> user_id, n |-> credits,
                   result |-> r.result]
        /\ UNCHANGED <<now, system>>

CallAddCredits(user_id, credits) ==
    /\ user_id \in DOMAIN users => users[user_id].credits + credits <= MaxBalance
    /\ users' = add_credits(users, user_id, credits)
    /\ ret' = [op |-> "add_credits", user |-> user_id, n |-> credits, result |-> "ok"]
    /\ UNCHANGED <<now, system>>

CallActivateSubscription(user_id, expires_at) ==
    /\ users' = activate_subscription(users, user_id, expires_at)
    /\ ret' = [op |-> "activate_subscription", user |-> user_id, n |-> 0, result |-> "ok"]
    /\ UNCHANGED <<now, system>>

CallDeactivateSubscription(user_id) ==
    /\ users' = deactivate_subscription(users, user_id)
    /\ ret' = [op |-> "deactivate_subscription", user |-> user_id, n |-> 0, result |-> "ok"]
    /\ UNCHANGED <<now, system>>

Tick ==
    /\ now < MaxTime
    /\ now' = now + 1
    /\ ret' = NoCall
    /\ UNCHANGED <<users, system>>

NextLedger ==
    \/ \E e \in Emails : CallGetOrCreateUser(e)
    \/ \E e \in Emails : CallCheckUserCredits(e)
    \/ \E e \in Emails, n \in Amounts : CallDeductCredit(e, n)
    \/ \E e \in Emails, n \in Amounts : CallAddCredits(e, n)
    \/ \E e \in Emails, x \in Expiries : CallActivateSubscription(e, x)
    \/ \E e \in Emails : CallDeactivateSubscription(e)
    \/ Tick

SpecLedger == Init /\ [][NextLedger]_vars

(***************************************************************************)
(* The running service.  A request handler or background task is cut at    *)
(* the awaits between which another may run and change what it goes on to  *)
(* use; a task suspended at such an await is an element of the bag tasks.  *)
(***************************************************************************)
Task(kind, pc, user, session, package) ==
    [kind |-> kind, pc |-> pc, user |-> user, session |-> session, package |-> package]

Resume(t, pc) == (tasks (-) SetToBag({t})) (+) SetToBag({[t EXCEPT !.pc = pc]})
Finish(t) == tasks (-) SetToBag({t})

\* A request arrives; the model receives at most MaxRequests of them.
Receive ==
    /\ requests < MaxRequests
    /\ requests' = requests + 1

Truthy(credits) == \E c \in credits : c # 0

create_purchase(P, user_id, package_id, stripe_session_id, credits_purchased) ==
    (stripe_session_id :>
        [user_id |-> user_id, package_id |-> package_id,
         credits_purchased |-> credits_purchased, status |-> "pending"]) @@ P

\* Faulty variant: the new status is never written.
update_purchase_status_not_saved(P, stripe_session_id, status) ==
    P

\* Faulty variant: the UPDATE has no WHERE on the session id.
update_purchase_status_every_row(P, stripe_session_id, status) ==
    [s \in DOMAIN P |-> [P[s] EXCEPT !.status = status]]

update_purchase_status(P, stripe_session_id, status) ==
    IF stripe_session_id \in DOMAIN P
    THEN [P EXCEPT ![stripe_session_id].status = status]
    ELSE P

\* database_service.update_package: setattr of every field given, on the row
\* if there is one.  kwargs is a function from field names to values.
update_package(P, package_id, kwargs) ==
    IF package_id \in DOMAIN P
    THEN [P EXCEPT ![package_id] =
            [f \in DOMAIN @ |-> IF f \in DOMAIN kwargs THEN kwargs[f] ELSE @[f]]]
    ELSE P

deactivate_package(P, package_id) ==
    update_package(P, package_id, [is_active |-> FALSE])

\* Faulty variant: the account is created before the package is looked up.
CreateCheckout_user_first(email, package_id, stripe_ok) ==
    /\ Receive
    /\ users' = get_or_create_user(users, email)
    /\ IF package_id \notin DOMAIN packages \/ ~packages[package_id].is_active
       THEN UNCHANGED <<purchases, granted>>
       ELSE IF stripe_ok
            THEN LET session_id == Cardinality(DOMAIN purchases) + 1
                 IN  /\ purchases' = create_purchase(purchases, email, package_id,
                                          session_id, packages[package_id].credits)
                     /\ granted' = (session_id :> 0) @@ granted
            ELSE UNCHANGED <<purchases, granted>>
    /\ ret' = [op |-> "create_checkout_session", user |-> email, n |-> 0,
               result |-> IF package_id \notin DOMAIN packages THEN "not_found"
                          ELSE IF ~packages[package_id].is_active THEN "not_active"
                          ELSE IF ~stripe_ok THEN "stripe_error"
                          ELSE "ok"]
    /\ UNCHANGED <<packages, credit_usage, now, tasks, credited, debited, outbox,
                   processed>>

\* stripe_service.create_checkout_session; stripe_ok is whether
\* stripe.checkout.Session.create returned a session.  The session id is the
\* next one Stripe hands out.
CreateCheckout(email, package_id, stripe_ok) ==
    /\ Receive
    /\ IF package_id \notin DOMAIN packages \/ ~packages[package_id].is_active
       THEN UNCHANGED <<users, purchases, granted>>
       ELSE /\ users' = get_or_create_user(users, email)
            /\ IF stripe_ok
               THEN LET session_id == Cardinality(DOMAIN purchases) + 1
                    IN  /\ purchases' = create_purchase(purchases, email, package_id,
                                             session_id, packages[package_id].credits)
                        /\ granted' = (session_id :> 0) @@ granted
               ELSE UNCHANGED <<purchases, granted>>
    /\ ret' = [op |-> "create_checkout_session", user |-> email, n |-> 0,
               result |-> IF package_id \notin DOMAIN packages THEN "not_found"
                          ELSE IF ~packages[package_id].is_active THEN "not_active"
                          ELSE IF ~stripe_ok THEN "stripe_error"
                          ELSE "ok"]
    /\ UNCHANGED <<packages, credit_usage, now, tasks, credited, debited, outbox,
                   processed>>

\* stripe_webhook with a checkout.session.completed event:
\* handle_checkout_completed up to the commit of update_purchase_status.
\* metadata is whether the session carries user_id and package_id, as every
\* session this service created does; session id 0 is one of a session it
\* did not create.  Without metadata, metadata["user_id"] raises KeyError
\* before anything is read, and stripe_webhook answers 500.
CheckoutCompleted(session_id, metadata) ==
    /\ session_id \in DOMAIN purchases \cup {0}
    /\ session_id \in DOMAIN purchases => metadata
    /\ Receive
    /\ purchases' = IF metadata
                    THEN update_purchase_status(purchases, session_id, "completed")
                    ELSE purchases
    /\ tasks' = IF metadata /\ session_id \in DOMAIN purchases
                THEN tasks (+) SetToBag({Task("checkout", "grant",
                                              purchases[session_id].user_id, session_id,
                                              purchases[session_id].package_id)})
                ELSE tasks
    /\ ret' = [op |-> "checkout_completed", user |-> "", n |-> session_id,
               result |-> IF ~metadata THEN "error"
                          ELSE IF session_id \in DOMAIN purchases THEN "ok"
                          ELSE "dropped"]
    /\ UNCHANGED <<users, packages, credit_usage, now, granted, credited,
                   debited, outbox, processed>>

\* Faulty variant: the checkout of a subscription package activates the
\* subscription itself.
GrantCredits_activates(t) ==
    /\ t.kind = "checkout" /\ t.pc = "grant"
    /\ LET grant == /\ t.package \in DOMAIN packages
                    /\ packages[t.package].package_type = "one_time"
                    /\ Truthy(packages[t.package].credits)
           c == IF grant THEN CHOOSE x \in packages[t.package].credits : TRUE ELSE 0
       IN  /\ users' = IF grant THEN add_credits(users, t.user, c)
                       ELSE activate_subscription(users, t.user, {})
           /\ granted' = IF grant THEN [granted EXCEPT ![t.session] = @ + 1] ELSE granted
           /\ credited' = IF grant /\ t.user \in DOMAIN users
                          THEN [credited EXCEPT ![t.user] = @ + c] ELSE credited
    /\ tasks' = Finish(t)
    /\ ret' = NoCall
    /\ UNCHANGED <<requests, packages, purchases, credit_usage, now, debited, outbox,
                   processed>>

\* handle_checkout_completed from get_package_by_id on.
GrantCredits(t) ==
    /\ t.kind = "checkout" /\ t.pc = "grant"
    /\ LET grant == /\ t.package \in DOMAIN packages
                    /\ packages[t.package].package_type = "one_time"
                    /\ Truthy(packages[t.package].credits)
           c == IF grant THEN CHOOSE x \in packages[t.package].credits : TRUE ELSE 0
       IN  /\ users' = IF grant THEN add_credits(users, t.user, c) ELSE users
           /\ granted' = IF grant THEN [granted EXCEPT ![t.session] = @ + 1] ELSE granted
           /\ credited' = IF grant /\ t.user \in DOMAIN users
                          THEN [credited EXCEPT ![t.user] = @ + c] ELSE credited
    /\ tasks' = Finish(t)
    /\ ret' = NoCall
    /\ UNCHANGED <<requests, packages, purchases, credit_usage, now, debited, outbox,
                   processed>>

\* handle_checkout_completed fails part-way: after update_purchase_status
\* has committed, get_package_by_id or add_credits raises (the database is
\* unreachable, the statement times out); stripe_webhook answers 500.
GrantFails(t) ==
    /\ t.kind = "checkout" /\ t.pc = "grant"
    /\ tasks' = Finish(t)
    /\ ret' = [op |-> "checkout_completed", user |-> "", n |-> t.session,
               result |-> "error"]
    /\ UNCHANGED <<requests, users, packages, purchases, credit_usage, now, granted,
                   credited, debited, outbox, processed>>

\* handle_subscription_created; customer_email "" is an event without one.
\* No row is deleted, so the row read is there when the UPDATE runs.
SubscriptionCreated(customer_email) ==
    /\ Receive
    /\ users' = IF customer_email = "" THEN users
                ELSE activate_subscription(users, customer_email, {})
    /\ processed' = IF customer_email \in DOMAIN users
                    THEN [processed EXCEPT ![customer_email] = Append(@, "created")]
                    ELSE processed
    /\ ret' = [op |-> "subscription_created", user |-> customer_email, n |-> 0,
               result |-> IF customer_email \in DOMAIN users THEN "ok" ELSE "dropped"]
    /\ UNCHANGED <<packages, purchases, credit_usage, now, tasks, granted,
                   credited, debited, outbox>>

\* handle_subscription_deleted.
SubscriptionDeleted(customer_email) ==
    /\ Receive
    /\ users' = IF customer_email = "" THEN users
                ELSE deactivate_subscription(users, customer_email)
    /\ processed' = IF customer_email \in DOMAIN users
                    THEN [processed EXCEPT ![customer_email] = Append(@, "deleted")]
                    ELSE processed
    /\ ret' = [op |-> "subscription_deleted", user |-> customer_email, n |-> 0,
               result |-> IF customer_email \in DOMAIN users THEN "ok" ELSE "dropped"]
    /\ UNCHANGED <<packages, purchases, credit_usage, now, tasks, granted,
                   credited, debited, outbox>>

\* admin.add_user_credits.
AdminAddCredits(user_id, credits) ==
    /\ Receive
    /\ users' = IF credits <= 0 THEN users ELSE add_credits(users, user_id, credits)
    /\ credited' = IF credits > 0 /\ user_id \in DOMAIN users
                   THEN [credited EXCEPT ![user_id] = @ + credits] ELSE credited
    /\ ret' = NoCall
    /\ UNCHANGED <<packages, purchases, credit_usage, now, tasks, granted,
                   debited, outbox,
                   processed>>

\* admin.update_package with the fields of PackageUpdateRequest that bear on
\* purchasing: price_gbp and is_active are each absent ({}) or given ({v}).
\* With no field given the route answers 400.
AdminUpdatePackage(package_id, price_gbp, is_active) ==
    /\ Receive
    /\ LET given == {f \in {"price_gbp", "is_active"} :
                        IF f = "price_gbp" THEN price_gbp # {} ELSE is_active # {}}
           update_data == [f \in given |->
                             IF f = "price_gbp" THEN CHOOSE v \in price_gbp : TRUE
                             ELSE CHOOSE v \in is_active : TRUE]
       IN  packages' = IF given = {} THEN packages
                       ELSE update_package(packages, package_id, update_data)
    /\ ret' = NoCall
    /\ UNCHANGED <<users, purchases, credit_usage, now, tasks, granted, credited,
                   debited, outbox, processed>>

\* admin.delete_package.
AdminDeletePackage(package_id) ==
    /\ Receive
    /\ packages' = deactivate_package(packages, package_id)
    /\ ret' = NoCall
    /\ UNCHANGED <<users, purchases, credit_usage, now, tasks, granted, credited,
                   debited, outbox, processed>>

\* Faulty variant: the account is looked up with get_or_create_user, which
\* inserts a row for an email it does not find.
TallyWebhook_creates_user(email, consent) ==
    /\ Receive
    /\ users' = IF consent THEN get_or_create_user(users, email) ELSE users
    /\ LET has_credits == check_user_credits(users, email, now)[1]
           status == IF ~consent THEN "rejected"
                     ELSE IF ~has_credits THEN "insufficient_credits"
                     ELSE "accepted"
       IN  /\ outbox' = IF status = "insufficient_credits"
                        THEN outbox (+) SetToBag({[kind |-> "notice", to |-> email]})
                        ELSE outbox
           /\ tasks' = IF status = "accepted"
                       THEN tasks (+) SetToBag({Task("submission", "generate", email, 0, "")})
                       ELSE tasks
           /\ ret' = [op |-> "tally_webhook", user |-> email, n |-> 0, result |-> status]
    /\ UNCHANGED <<packages, purchases, credit_usage, now, granted, credited, debited,
                   processed>>

\* Faulty variant: the task is scheduled whatever the check answered.
TallyWebhook_admits_all(email, consent) ==
    /\ Receive
    /\ LET has_credits == check_user_credits(users, email, now)[1]
           status == IF ~consent THEN "rejected"
                     ELSE IF ~has_credits THEN "insufficient_credits"
                     ELSE "accepted"
       IN  /\ outbox' = IF status = "insufficient_credits"
                        THEN outbox (+) SetToBag({[kind |-> "notice", to |-> email]})
                        ELSE outbox
           /\ tasks' = IF consent
                       THEN tasks (+) SetToBag({Task("submission", "generate", email, 0, "")})
                       ELSE tasks
           /\ ret' = [op |-> "tally_webhook", user |-> email, n |-> 0, result |-> status]
    /\ UNCHANGED <<users, packages, purchases, credit_usage, now, granted,
                   credited, debited,
                   processed>>

\* Faulty variant: the consent is looked at after the entitlement check.
TallyWebhook_consent_after_check(email, consent) ==
    /\ Receive
    /\ LET has_credits == check_user_credits(users, email, now)[1]
           status == IF ~has_credits THEN "insufficient_credits"
                     ELSE IF ~consent THEN "rejected"
                     ELSE "accepted"
       IN  /\ outbox' = IF status = "insufficient_credits"
                        THEN outbox (+) SetToBag({[kind |-> "notice", to |-> email]})
                        ELSE outbox
           /\ tasks' = IF status = "accepted"
                       THEN tasks (+) SetToBag({Task("submission", "generate", email, 0, "")})
                       ELSE tasks
           /\ ret' = [op |-> "tally_webhook", user |-> email, n |-> 0, result |-> status]
    /\ UNCHANGED <<users, packages, purchases, credit_usage, now, granted,
                   credited, debited, processed>>

\* webhook.tally_webhook, for a payload that parses.
TallyWebhook(email, consent) ==
    /\ Receive
    /\ LET has_credits == check_user_credits(users, email, now)[1]
           status == IF ~consent THEN "rejected"
                     ELSE IF ~has_credits THEN "insufficient_credits"
                     ELSE "accepted"
       IN  /\ outbox' = IF status = "insufficient_credits"
                        THEN outbox (+) SetToBag({[kind |-> "notice", to |-> email]})
                        ELSE outbox
           /\ tasks' = IF status = "accepted"
                       THEN tasks (+) SetToBag({Task("submission", "generate", email, 0, "")})
                       ELSE tasks
           /\ ret' = [op |-> "tally_webhook", user |-> email, n |-> 0, result |-> status]
    /\ UNCHANGED <<users, packages, purchases, credit_usage, now, granted,
                   credited, debited,
                   processed>>

\* Faulty variant: the credit is taken before the generation is attempted.
Generate_debit_first(t, ok) ==
    /\ t.kind = "submission" /\ t.pc = "generate"
    /\ users' = deduct_update(users, t.user, 1)
    /\ debited' = [debited EXCEPT ![t.user] = @ + 1]
    /\ tasks' = IF ok THEN Resume(t, "log") ELSE Finish(t)
    /\ ret' = IF ok THEN NoCall
              ELSE [op |-> "generate", user |-> t.user, n |-> 0, result |-> "failed"]
    /\ UNCHANGED <<requests, packages, purchases, credit_usage, now, granted,
                   credited, outbox,
                   processed>>

\* process_submission_with_credit_deduction up to the end of the generation;
\* ok is whether generate_supporting_info returned.
Generate(t, ok) ==
    /\ t.kind = "submission" /\ t.pc = "generate"
    /\ tasks' = IF t.user \in DOMAIN users /\ ok THEN Resume(t, "deduct") ELSE Finish(t)
    /\ ret' = IF t.user \in DOMAIN users /\ ok THEN NoCall
              ELSE [op |-> "generate", user |-> t.user, n |-> 0, result |-> "failed"]
    /\ UNCHANGED <<requests, users, packages, purchases, credit_usage, now, granted,
                   credited, debited, outbox,
                   processed>>

\* Faulty variant: the ValueError of deduct_credit is not caught and ends
\* the task.
DeductRead_error_ends_task(t) ==
    /\ t.kind = "submission" /\ t.pc = "deduct"
    /\ LET d == deduct_check(users, t.user, 1, now)
       IN  tasks' = IF d = "update" THEN Resume(t, "update")
                    ELSE IF d = "return" THEN Resume(t, "log")
                    ELSE Finish(t)
    /\ ret' = NoCall
    /\ UNCHANGED <<requests, users, packages, purchases, credit_usage, now, granted,
                   credited, debited, outbox,
                   processed>>

\* deduct_credit(user.id, 1) up to its UPDATE: get_user_by_id reads the row as
\* stored when it runs, and the tests are made on that copy.  A ValueError
\* skips log_credit_usage.
DeductRead(t) ==
    /\ t.kind = "submission" /\ t.pc = "deduct"
    /\ LET d == deduct_check(users, t.user, 1, now)
       IN  tasks' = Resume(t, IF d = "update" THEN "update"
                              ELSE IF d = "return" THEN "log"
                              ELSE "email")
    /\ ret' = NoCall
    /\ UNCHANGED <<requests, users, packages, purchases, credit_usage, now, granted,
                   credited, debited, outbox,
                   processed>>

\* The UPDATE and commit of deduct_credit.
DeductUpdate(t) ==
    /\ t.kind = "submission" /\ t.pc = "update"
    /\ users' = deduct_update(users, t.user, 1)
    /\ debited' = [debited EXCEPT ![t.user] = @ + 1]
    /\ tasks' = Resume(t, "log")
    /\ ret' = NoCall
    /\ UNCHANGED <<requests, packages, purchases, credit_usage, now, granted, credited,
                   outbox,
                   processed>>

\* Faulty variant: the row is never added.
log_credit_usage_not_saved(CU, user_id, credits_used) == CU

\* The row log_credit_usage adds and commits.
log_credit_usage(CU, user_id, credits_used) ==
    CU (+) SetToBag({[user_id |-> user_id, credits_used |-> credits_used]})

\* Faulty variant: after the row is added the task runs the debit again.
LogUsage_redoes_debit(t) ==
    /\ t.kind = "submission" /\ t.pc = "log"
    /\ credit_usage' = log_credit_usage(credit_usage, t.user, 1)
    /\ tasks' = Resume(t, IF users[t.user].credits > 0 THEN "update" ELSE "email")
    /\ ret' = NoCall
    /\ UNCHANGED <<requests, users, packages, purchases, now, granted, credited,
                   debited, outbox, processed>>

\* log_credit_usage.
LogUsage(t) ==
    /\ t.kind = "submission" /\ t.pc = "log"
    /\ credit_usage' = log_credit_usage(credit_usage, t.user, 1)
    /\ tasks' = Resume(t, "email")
    /\ ret' = NoCall
    /\ UNCHANGED <<requests, users, packages, purchases, now, granted, credited,
                   debited, outbox,
                   processed>>

\* send_email of the result; whether it fails or not, the task ends.
SendEmail(t) ==
    /\ t.kind = "submission" /\ t.pc = "email"
    /\ outbox' = outbox (+) SetToBag({[kind |-> "result", to |-> t.user]})
    /\ tasks' = Finish(t)
    /\ ret' = NoCall
    /\ UNCHANGED <<requests, users, packages, purchases, credit_usage, now, granted,
                   credited, debited,
                   processed>>

Next ==
    \/ \E e \in Emails, p \in PackageIds, ok \in BOOLEAN : CreateCheckout(e, p, ok)
    \/ \E s \in SessionIds \cup {0}, m \in BOOLEAN : CheckoutCompleted(s, m)
    \/ \E t \in BagToSet(tasks) : GrantCredits(t)
    \/ \E e \in Emails \cup {""} : SubscriptionCreated(e)
    \/ \E e \in Emails \cup {""} : SubscriptionDeleted(e)
    \/ \E e \in Emails, n \in Amounts : AdminAddCredits(e, n)
    \/ \E e \in Emails, consent \in BOOLEAN : TallyWebhook(e, consent)
    \/ \E t \in BagToSet(tasks), ok \in BOOLEAN : Generate(t, ok)
    \/ \E t \in BagToSet(tasks) : DeductRead(t)
    \/ \E t \in BagToSet(tasks) : DeductUpdate(t)
    \/ \E t \in BagToSet(tasks) : LogUsage(t)
    \/ \E t \in BagToSet(tasks) : SendEmail(t)

Spec == Init /\ [][Next]_vars

\* The service with no concurrent activity: a request is received only when
\* no handler or background task of an earlier one is still in flight.
Idle == tasks = EmptyBag

NextSeq ==
    \/ Idle /\ \E e \in Emails, p \in PackageIds, ok \in BOOLEAN : CreateCheckout(e, p, ok)
    \/ Idle /\ \E s \in SessionIds \cup {0}, m \in BOOLEAN : CheckoutCompleted(s, m)
    \/ \E t \in BagToSet(tasks) : GrantCredits(t)
    \/ Idle /\ \E e \in Emails \cup {""} : SubscriptionCreated(e)
    \/ Idle /\ \E e \in Emails \cup {""} : SubscriptionDeleted(e)
    \/ Idle /\ \E e \in Emails, n \in Amounts : AdminAddCredits(e, n)
    \/ Idle /\ \E e \in Emails, consent \in BOOLEAN : TallyWebhook(e, consent)
    \/ \E t \in BagToSet(tasks), ok \in BOOLEAN : Generate(t, ok)
    \/ \E t \in BagToSet(tasks) : DeductRead(t)
    \/ \E t \in BagToSet(tasks) : DeductUpdate(t)
    \/ \E t \in BagToSet(tasks) : LogUsage(t)
    \/ \E t \in BagToSet(tasks) : SendEmail(t)

SpecSeq == Init /\ [][NextSeq]_vars

\* The checkout and the package administration: packages are updated and
\* soft-deleted while checkouts are made, also for an id no package has.
NextAdmin ==
    \/ \E e \in Emails, p \in PackageIds \cup {"none"}, ok \in BOOLEAN :
            CreateCheckout(e, p, ok)
    \/ \E p \in PackageIds \cup {"none"},
          price \in {{}} \cup {{v} : v \in Prices},
          active \in {{}, {TRUE}, {FALSE}} : AdminUpdatePackage(p, price, active)
    \/ \E p \in PackageIds \cup {"none"} : AdminDeletePackage(p)

SpecAdmin == Init /\ [][NextAdmin]_vars

\* The checkout and its event when a database call of the handler may fail.
NextFault ==
    \/ \E e \in Emails, p \in PackageIds, ok \in BOOLEAN : CreateCheckout(e, p, ok)
    \/ \E s \in SessionIds \cup {0}, m \in BOOLEAN : CheckoutCompleted(s, m)
    \/ \E t \in BagToSet(tasks) : GrantCredits(t)
    \/ \E t \in BagToSet(tasks) : GrantFails(t)

SpecFault == Init /\ [][NextFault]_vars

(***************************************************************************)
(* Properties of the ledger functions.                                     *)
(***************************************************************************)
Exists(e) == e \in DOMAIN users
Metered(e) == Exists(e) /\ ~users[e].is_unlimited
ExpiryUnsetOrLater(e) ==
    \/ users[e].unlimited_expires_at = {}
    \/ \E x \in users[e].unlimited_expires_at : x > now
ExpiryPassed(e) ==
    \E x \in users[e].unlimited_expires_at : x <= now

\* C2: after any sequence of debit(n) and credit(m) calls made one after
\* another, n, m >= 1, no stored balance is negative.
C2_BalanceNeverNegative ==
    \A e \in DOMAIN users : users[e].credits >= 0

\* A debit has just taken a metered balance to exactly zero.
C2_Witness ==
    /\ ret.op = "deduct_credit" /\ ret.result = "ok"
    /\ Metered(ret.user) /\ users[ret.user].credits = 0

C6_CheckOfUnknownEmail ==
    (ret.op = "check_user_credits" /\ ~Exists(ret.user))
        => ret.result = <<FALSE, 0>>

\* The check has just been made of an email without account, while another
\* account exists.
C6_Witness ==
    /\ ret.op = "check_user_credits" /\ ~Exists(ret.user)
    /\ DOMAIN users # {}

\* C7: the entitlement check of a metered account with balance b returns
\* (b > 0, b); a successful debit(n) of it leaves balance b - n, of which the
\* check then returns (b - n > 0, b - n).
C7_MeteredCheckAndDebit ==
    [][/\ (ret'.op = "check_user_credits" /\ Metered(ret'.user))
            => ret'.result = <<users[ret'.user].credits > 0, users[ret'.user].credits>>
       /\ (ret'.op = "deduct_credit" /\ ret'.result = "ok" /\ Metered(ret'.user))
            => LET b == users[ret'.user].credits
               IN  /\ users'[ret'.user].credits = b - ret'.n
                   /\ check_user_credits(users', ret'.user, now')
                          = <<b - ret'.n > 0, b - ret'.n>>]_vars

\* debit(1) has just succeeded on a metered account and left balance 2.
C7_Witness ==
    /\ ret.op = "deduct_credit" /\ ret.result = "ok" /\ ret.n = 1
    /\ Metered(ret.user) /\ users[ret.user].credits = 2
    /\ check_user_credits(users, ret.user, now) = <<TRUE, 2>>

Started(t) == CopiesIn(t, tasks') > CopiesIn(t, tasks)
Ended(t) == CopiesIn(t, tasks') < CopiesIn(t, tasks)
InFlight(kind, pc, user) ==
    \E t \in BagToSet(tasks) : t.kind = kind /\ t.pc = pc /\ t.user = user
OneTimeCredits(package_id) ==
    IF packages[package_id].package_type = "one_time"
    THEN {c \in packages[package_id].credits : c > 0}
    ELSE {}

\* C1: however often the checkout-completed event of one session is
\* processed, the credits of its one_time package are added to the account
\* at most once.
C1_ReplayCreditsOnce ==
    \A s \in DOMAIN purchases :
        OneTimeCredits(purchases[s].package_id) # {} => granted[s] <= 1

\* C3: concurrent debits of a metered account never take more than was
\* credited to it: at most balance-many of them succeed and the balance
\* never goes below 0.
C3_ConcurrentDebitsNeverOverdraw ==
    \A e \in DOMAIN users :
        debited[e] <= credited[e] /\ users[e].credits >= 0

\* C4: in every interleaving of credits and successful debits of an account,
\* its balance is the initial balance (0 when the row is created) plus all
\* that was credited minus all that was debited.
C4_NoLostUpdates ==
    \A e \in DOMAIN users :
        users[e].credits = credited[e] - debited[e]

\* A credit and a debit of one account are both in flight, the debit past its
\* balance test, after earlier credits and debits of that account.
C4_Witness ==
    \E e \in DOMAIN users :
        /\ InFlight("checkout", "grant", e)
        /\ InFlight("submission", "update", e)
        /\ credited[e] > 0 /\ debited[e] > 0

\* C10: a checkout session made for an email without account and an active
\* one_time package with credits c > 0 creates the account with balance 0 and
\* a pending Purchase; processing the session's checkout-completed event sets
\* the Purchase to completed and, the first time, adds exactly c to the balance.
C10_OneTimePurchase ==
    [][/\ \A s \in DOMAIN purchases' \ DOMAIN purchases :
            LET e == purchases'[s].user_id
            IN  /\ purchases'[s].status = "pending"
                /\ purchases'[s].credits_purchased = packages[purchases'[s].package_id].credits
                /\ e \in DOMAIN users'
                /\ e \notin DOMAIN users => users'[e].credits = 0
       /\ \A t \in BagToSet(tasks') :
            (t.kind = "checkout" /\ Started(t))
                => purchases'[t.session].status = "completed"
       /\ \A t \in BagToSet(tasks) :
            (t.kind = "checkout" /\ Ended(t) /\ granted[t.session] = 0)
                => \A c \in OneTimeCredits(purchases[t.session].package_id) :
                       /\ purchases'[t.session].status = "completed"
                       /\ users'[t.user].credits = users[t.user].credits + c]_vars

\* The one event of the only session of a new account has been processed:
\* the Purchase is completed and the balance is the package's credits.
C10_Witness ==
    \E s \in DOMAIN purchases :
        LET e == purchases[s].user_id
        IN  /\ \E c \in OneTimeCredits(purchases[s].package_id) :
                   users[e].credits = c /\ credited[e] = c
            /\ purchases[s].status = "completed"
            /\ granted[s] = 1
            /\ debited[e] = 0
            /\ tasks = EmptyBag

(***************************************************************************)
(* Properties of the submission flow.                                      *)
(***************************************************************************)
UsageRow(e) == [user_id |-> e, credits_used |-> 1]
Alone(t) == tasks = SetToBag({t})
At(t, pc) == SetToBag({[t EXCEPT !.pc = pc]})

\* C11: with nothing else in flight, a consenting submission for a metered
\* account of balance 1 is accepted; its task keeps the balance at 1 until
\* the generation has succeeded, the debit then takes it to 0, and exactly
\* one usage row with credits_used = 1 is added for the account.
C11_SuccessfulSubmission ==
    [][/\ (/\ ret'.op = "tally_webhook" /\ ret'.result # "rejected"
           /\ tasks = EmptyBag
           /\ Metered(ret'.user) /\ users[ret'.user].credits = 1)
          => /\ ret'.result = "accepted"
             /\ tasks' = SetToBag({Task("submission", "generate", ret'.user, 0, "")})
             /\ users' = users /\ credit_usage' = credit_usage
       /\ \A t \in BagToSet(tasks) :
            (/\ t.kind = "submission" /\ Alone(t) /\ Metered(t.user)
             /\ users[t.user].credits = 1 /\ t.pc \in {"generate", "deduct", "update"})
              => /\ t.pc = "generate"
                    => /\ tasks' \in {At(t, "deduct"), EmptyBag}
                       /\ users' = users /\ credit_usage' = credit_usage
                 /\ t.pc = "deduct"
                    => /\ tasks' = At(t, "update")
                       /\ users' = users /\ credit_usage' = credit_usage
                 /\ t.pc = "update"
                    => /\ tasks' = At(t, "log")
                       /\ users' = [users EXCEPT ![t.user].credits = 0]
                       /\ credit_usage' = credit_usage
       /\ \A t \in BagToSet(tasks) :
            (t.kind = "submission" /\ Alone(t) /\ t.pc = "log")
              => /\ tasks' = At(t, "email")
                 /\ users' = users
                 /\ credit_usage' = credit_usage (+) SetToBag({UsageRow(t.user)})]_vars

\* The only submission of an account that was given one credit has been
\* debited and logged: the balance is 0 and the account has one usage row.
C11_Witness ==
    \E e \in DOMAIN users :
        /\ Metered(e) /\ credited[e] = 1 /\ debited[e] = 1
        /\ users[e].credits = 0
        /\ CopiesIn(UsageRow(e), credit_usage) = 1
        /\ BagCardinality(credit_usage) = 1
        /\ InFlight("submission", "email", e)

Notice(e) == [kind |-> "notice", to |-> e]

\* C12: a consenting submission for an email with no account, or for a
\* metered account of balance 0, is answered insufficient_credits; exactly
\* one purchase-link notice is scheduled, no generation task is added, and
\* no balance, debit count or usage row changes.
C12_SoftDecline ==
    [][(/\ ret'.op = "tally_webhook" /\ ret'.result # "rejected"
        /\ \/ ~Exists(ret'.user)
           \/ Metered(ret'.user) /\ users[ret'.user].credits = 0)
       => /\ ret'.result = "insufficient_credits"
          /\ outbox' = outbox (+) SetToBag({Notice(ret'.user)})
          /\ tasks' = tasks
          /\ users' = users
          /\ debited' = debited
          /\ credit_usage' = credit_usage]_vars

\* Both cases have happened: a notice went to an email without an account,
\* and the last submission, of a metered account with balance 0, was declined.
C12_Witness ==
    /\ ret.op = "tally_webhook" /\ ret.result = "insufficient_credits"
    /\ Metered(ret.user) /\ users[ret.user].credits = 0
    /\ CopiesIn(Notice(ret.user), outbox) = 1
    /\ \E e \in Emails \ DOMAIN users : CopiesIn(Notice(e), outbox) = 1

(***************************************************************************)
(* Properties of the payment events and of the ledger's credit.            *)
(***************************************************************************)
\* C13: processing a subscription-created event that carries an email with
\* no account creates the account with balance 0 and leaves it unlimited
\* with no expiry.
C13_SubscriptionCreatesAccount ==
    [][\A e \in Emails :
         (SubscriptionCreated(e) /\ ~Exists(e))
           => /\ e \in DOMAIN users'
              /\ users'[e].credits = 0
              /\ users'[e].is_unlimited
              /\ users'[e].unlimited_expires_at = {}]_vars

\* C14: credit(account_id, n) adds n to the balance whatever the account's
\* state, and for an account that does not exist it creates the row with
\* balance 0 first: after the call the account exists with balance n.
C14_CreditCreatesAccount ==
    [][ret'.op = "add_credits"
       => /\ Exists(ret'.user)
             => users' = [users EXCEPT ![ret'.user].credits = @ + ret'.n]
          /\ ~Exists(ret'.user)
             => /\ ret'.user \in DOMAIN users'
                /\ users'[ret'.user].credits = ret'.n]_vars

(***************************************************************************)
(* Properties of the background task of a submission.                      *)
(***************************************************************************)
\* C15: when the generation of an admitted submission fails, its task ends
\* there: no debit is made, no usage row is added, and every account keeps
\* its balance, unlimited flag and expiry.
C15_NoChargeOnFailedGeneration ==
    [][(ret'.op = "generate" /\ ret'.result = "failed")
       => /\ users' = users
          /\ debited' = debited
          /\ credit_usage' = credit_usage
          /\ \E t \in BagToSet(tasks) :
                /\ t.kind = "submission" /\ t.pc = "generate" /\ t.user = ret'.user
                /\ tasks' = Finish(t)]_vars

\* The generation for a metered account with a balance has just failed, and
\* the account has never been debited.
C15_Witness ==
    /\ ret.op = "generate" /\ ret.result = "failed"
    /\ Metered(ret.user) /\ users[ret.user].credits >= 1
    /\ debited[ret.user] = 0
    /\ users[ret.user].credits = credited[ret.user]
    /\ credit_usage = EmptyBag
    /\ tasks = EmptyBag

\* C16: the entitlement check made for a consenting submission changes
\* nothing that is stored: the set of accounts (none is created for an
\* unknown email), every balance, flag and expiry, every Purchase and every
\* usage row are as before.
C16_CheckHasNoSideEffects ==
    [][(ret'.op = "tally_webhook" /\ ret'.result # "rejected")
       => /\ DOMAIN users' = DOMAIN users
          /\ users' = users
          /\ purchases' = purchases
          /\ credit_usage' = credit_usage
          /\ packages' = packages]_vars

\* The check has just answered for an email without an account, while
\* another account, a Purchase and a usage row exist.
C16_Witness ==
    /\ ret.op = "tally_webhook" /\ ret.result = "insufficient_credits"
    /\ ~Exists(ret.user)
    /\ DOMAIN users # {}
    /\ DOMAIN purchases # {}
    /\ credit_usage # EmptyBag

\* The order in which a submission's task passes its awaits.
TaskOrder ==
    {<<"generate", "deduct">>, <<"deduct", "update">>, <<"deduct", "log">>,
     <<"deduct", "email">>, <<"update", "log">>, <<"log", "email">>}

\* C17: a submission's task starts only in the step of a submission whose
\* entitlement check answered true, and moves on only from its own earlier
\* position; a balance is lowered, and a usage row is added, only by such a
\* task; a submission whose check answered false starts no task and changes
\* no balance, debit count or usage row.
C17_CheckBeforeConsume ==
    [][/\ \A t \in BagToSet(tasks') :
            (t.kind = "submission" /\ Started(t))
              => IF t.pc = "generate"
                 THEN /\ ret'.op = "tally_webhook" /\ ret'.result = "accepted"
                      /\ ret'.user = t.user
                      /\ check_user_credits(users, t.user, now)[1]
                 ELSE \E s \in BagToSet(tasks) :
                        /\ s.kind = "submission" /\ s.user = t.user /\ Ended(s)
                        /\ <<s.pc, t.pc>> \in TaskOrder
       /\ \A e \in DOMAIN users :
            (users'[e].credits < users[e].credits \/ debited'[e] # debited[e])
              => \E s \in BagToSet(tasks) :
                   /\ s.kind = "submission" /\ s.user = e /\ s.pc = "update"
                   /\ Ended(s)
       /\ credit_usage' # credit_usage
            => \E s \in BagToSet(tasks) :
                 /\ s.kind = "submission" /\ s.pc = "log" /\ Ended(s)
                 /\ credit_usage' = credit_usage (+) SetToBag({UsageRow(s.user)})
       /\ (ret'.op = "tally_webhook" /\ ~check_user_credits(users, ret'.user, now)[1])
            => /\ tasks' = tasks
               /\ users' = users /\ debited' = debited
               /\ credit_usage' = credit_usage]_vars

\* One submission was declined and another, admitted, has been debited and
\* is about to be logged.
C17_Witness ==
    /\ \E e \in Emails : CopiesIn(Notice(e), outbox) >= 1
    /\ \E t \in BagToSet(tasks) :
          /\ t.kind = "submission" /\ t.pc = "log"
          /\ Metered(t.user) /\ debited[t.user] = 1

(***************************************************************************)
(* Properties of the Purchases.                                            *)
(***************************************************************************)
\* C18: a Purchase is created pending and is never removed; its status
\* changes only from pending to completed, and only in the step that
\* processes a checkout-completed event of its own session id; a completed
\* Purchase stays completed whatever is processed later.
C18_PurchaseStatusMachine ==
    [][/\ DOMAIN purchases \subseteq DOMAIN purchases'
       /\ \A s \in DOMAIN purchases' \ DOMAIN purchases :
            purchases'[s].status = "pending"
       /\ \A s \in DOMAIN purchases :
            /\ purchases[s].status \in {"pending", "completed"}
            /\ purchases[s].status = "completed" => purchases'[s].status = "completed"
            /\ purchases'[s].status # purchases[s].status
                 => /\ purchases'[s].status = "completed"
                    /\ \E t \in BagToSet(tasks') :
                          t.kind = "checkout" /\ t.session = s /\ Started(t)]_vars

\* A session's event has been processed twice and its Purchase is completed,
\* while the Purchase of another session is still pending.
C18_Witness ==
    \E s1, s2 \in DOMAIN purchases :
        /\ purchases[s1].status = "completed" /\ granted[s1] = 2
        /\ purchases[s2].status = "pending"
        /\ tasks = EmptyBag

(***************************************************************************)
(* Properties of the usage rows.                                           *)
(***************************************************************************)
RECURSIVE SumUsed(_, _)
SumUsed(CU, rows) ==
    IF rows = {} THEN 0
    ELSE LET r == CHOOSE x \in rows : TRUE
         IN  r.credits_used * CopiesIn(r, CU) + SumUsed(CU, rows \ {r})

\* The sum of credits_used over the usage rows of account e.
UsageSum(CU, e) == SumUsed(CU, {r \in BagToSet(CU) : r.user_id = e})

\* C19: usage rows are only ever added, and whenever no task of an account
\* stands between its debit and its usage row, the sum of credits_used over
\* the account's rows is the number of credits the submissions' debits took
\* from its balance (a submission that took none adds no row with
\* credits_used > 0).
C19_AuditMatchesConsumption ==
    [][/\ \A r \in BagToSet(credit_usage) :
            CopiesIn(r, credit_usage') >= CopiesIn(r, credit_usage)
       /\ \A e \in Emails :
            (\A t \in BagToSet(tasks') : ~(t.kind = "submission" /\ t.user = e))
              => UsageSum(credit_usage', e) = debited'[e]]_vars

Result(e) == [kind |-> "result", to |-> e]

\* C20: when, after the generation, the debit finds an account that is not
\* unlimited-active with a balance below 1, the task goes straight on to
\* the delivery: no balance, debit count or usage row changes, and the step
\* from there sends the result and ends the task without adding a row.
C20_FailedDebitStillDelivers ==
    [][\A t \in BagToSet(tasks) :
         /\ (/\ t.kind = "submission" /\ t.pc = "deduct" /\ Ended(t)
             /\ Exists(t.user)
             /\ ~UnlimitedActive(users[t.user], now)
             /\ users[t.user].credits < 1)
            => /\ tasks' = Resume(t, "email")
               /\ users' = users /\ debited' = debited
               /\ credit_usage' = credit_usage
         /\ (t.kind = "submission" /\ t.pc = "email" /\ Ended(t))
            => /\ tasks' = Finish(t)
               /\ outbox' = outbox (+) SetToBag({Result(t.user)})
               /\ users' = users /\ debited' = debited
               /\ credit_usage' = credit_usage]_vars

\* Two results were delivered to a metered account that was debited once and
\* has one usage row: the second debit failed and its result was sent.
C20_Witness ==
    \E e \in DOMAIN users :
        /\ Metered(e) /\ users[e].credits = 0
        /\ credited[e] = 1 /\ debited[e] = 1
        /\ UsageSum(credit_usage, e) = 1
        /\ CopiesIn(Result(e), outbox) = 2
        /\ tasks = EmptyBag

(***************************************************************************)
(* Properties of the subscription events.                                  *)
(***************************************************************************)
IsSubscription(package_id) ==
    /\ package_id \in DOMAIN packages
    /\ packages[package_id].package_type = "subscription"

\* C21: both steps that process the checkout-completed event of a Purchase
\* of a subscription package leave every account as it was, and the
\* Purchase is completed when they are done; an account becomes unlimited
\* only in a step that processes a subscription-created event carrying its
\* email, and is then unlimited with no expiry.
C21_SubscriptionCheckoutFrame ==
    [][/\ \A t \in BagToSet(tasks') :
            (t.kind = "checkout" /\ Started(t) /\ IsSubscription(t.package))
              => users' = users /\ purchases'[t.session].status = "completed"
       /\ \A t \in BagToSet(tasks) :
            (t.kind = "checkout" /\ Ended(t) /\ IsSubscription(t.package))
              => users' = users /\ purchases'[t.session].status = "completed"
       /\ \A e \in DOMAIN users :
            (~users[e].is_unlimited /\ users'[e].is_unlimited)
              => /\ SubscriptionCreated(e)
                 /\ users'[e].unlimited_expires_at = {}
                 /\ users'[e].credits = users[e].credits]_vars

\* The checkout of a subscription package has been completed for an account
\* that is still metered with nothing credited.
C21_Witness ==
    \E s \in DOMAIN purchases :
        /\ IsSubscription(purchases[s].package_id)
        /\ purchases[s].status = "completed"
        /\ tasks = EmptyBag
        /\ Metered(purchases[s].user_id)
        /\ users[purchases[s].user_id].credits = 0
        /\ credited[purchases[s].user_id] = 0

\* C22: processing a subscription-deleted event that carries the email of
\* an existing account leaves the account metered with no expiry and the
\* same balance b, and every other account as it was; the entitlement check
\* then answers (b > 0, b) and a debit of 1 is made against the balance: it
\* takes b to b - 1 when b >= 1 and fails otherwise.
C22_SubscriptionDeleted ==
    [][(ret'.op = "subscription_deleted" /\ Exists(ret'.user))
       => LET e == ret'.user
              b == users[e].credits
          IN  /\ users' = [users EXCEPT ![e].is_unlimited = FALSE,
                                        ![e].unlimited_expires_at = {}]
              /\ check_user_credits(users', e, now') = <<b > 0, b>>
              /\ deduct_credit(users', e, 1, now').result
                    = IF b >= 1 THEN "ok" ELSE "insufficient"
              /\ deduct_credit(users', e, 1, now').users[e].credits
                    = IF b >= 1 THEN b - 1 ELSE b]_vars

\* The subscription of an account with a balance, which was served one
\* submission without a debit while unlimited, has just been deleted.
C22_Witness ==
    /\ ret.op = "subscription_deleted" /\ ret.result = "ok"
    /\ Metered(ret.user) /\ users[ret.user].credits >= 1
    /\ processed[ret.user] = <<"created", "deleted">>
    /\ UsageSum(credit_usage, ret.user) = 1
    /\ debited[ret.user] = 0

(***************************************************************************)
(* Properties of the events that cannot be resolved.                       *)
(***************************************************************************)
\* C23: a checkout-completed event whose session id matches no Purchase, and
\* a subscription-created or subscription-deleted event whose email is
\* missing or matches no account, change no account and no Purchase, and
\* their handler returns without raising.
C23_UnresolvableEventsDropped ==
    [][(\/ ret'.op = "checkout_completed" /\ ret'.n \notin DOMAIN purchases
        \/ /\ ret'.op \in {"subscription_created", "subscription_deleted"}
           /\ ~Exists(ret'.user))
       => /\ users' = users
          /\ purchases' = purchases
          /\ ret'.result = "dropped"]_vars

(***************************************************************************)
(* Properties of a submission's lifetime.                                  *)
(***************************************************************************)
\* C24: an accepted submission schedules exactly one task, and no task is
\* ever put (back) at the generation otherwise; each step of a task moves
\* it one position on, so it passes the generation, the debit, the usage
\* row and the delivery at most once each; the debit takes exactly 1 from
\* its account, the usage row is one row, the delivery one email.
C24_AtMostOneCharge ==
    [][/\ ret'.op = "tally_webhook" /\ ret'.result = "accepted"
            => tasks' = tasks (+) SetToBag({Task("submission", "generate", ret'.user, 0, "")})
       /\ ~(ret'.op = "tally_webhook" /\ ret'.result = "accepted")
            => \A t \in BagToSet(tasks') :
                   (t.kind = "submission" /\ t.pc = "generate") => ~Started(t)
       /\ \A t \in BagToSet(tasks) :
            (t.kind = "submission" /\ Ended(t))
              => /\ \/ tasks' = Finish(t)
                    \/ \E pc \in {"deduct", "update", "log", "email"} :
                          <<t.pc, pc>> \in TaskOrder /\ tasks' = Resume(t, pc)
                 /\ IF t.pc = "update"
                    THEN /\ users' = [users EXCEPT ![t.user].credits = @ - 1]
                         /\ debited' = [debited EXCEPT ![t.user] = @ + 1]
                         /\ tasks' = Resume(t, "log")
                    ELSE users' = users /\ debited' = debited
                 /\ IF t.pc = "log"
                    THEN /\ credit_usage' = credit_usage (+) SetToBag({UsageRow(t.user)})
                         /\ tasks' = Resume(t, "email")
                    ELSE credit_usage' = credit_usage
                 /\ IF t.pc = "email"
                    THEN /\ outbox' = outbox (+) SetToBag({Result(t.user)})
                         /\ tasks' = Finish(t)
                    ELSE outbox' = outbox]_vars

\* A submission of an account that was given two credits has run to its
\* end: one credit was taken, one row added, one result sent.
C24_Witness ==
    \E e \in DOMAIN users :
        /\ Metered(e) /\ credited[e] = 2 /\ users[e].credits = 1
        /\ debited[e] = 1
        /\ UsageSum(credit_usage, e) = 1
        /\ CopiesIn(Result(e), outbox) = 1
        /\ CopiesIn(Notice(e), outbox) = 0
        /\ tasks = EmptyBag

(***************************************************************************)
(* Properties of the packages and of the checkout.                         *)
(***************************************************************************)
Referenced(package_id) ==
    \E s \in DOMAIN purchases : purchases[s].package_id = package_id

\* C25: once a Purchase references a package, no administrative update or
\* delete changes the package's id, type, credits or price.
C25_EconomicsFrozen ==
    [][\A p \in DOMAIN packages :
         Referenced(p)
           => /\ p \in DOMAIN packages'
              /\ packages'[p].package_type = packages[p].package_type
              /\ packages'[p].credits = packages[p].credits
              /\ packages'[p].price_gbp = packages[p].price_gbp]_vars

(***************************************************************************)
(* Properties of the consent.                                              *)
(***************************************************************************)
\* C26: a submission without consent is answered rejected whatever the
\* account's balance and subscription are; it schedules no notice and no
\* task and changes no account, Purchase, debit count or usage row.
C26_NoConsentRejected ==
    [][\A e \in Emails :
         TallyWebhook(e, FALSE)
           => /\ ret'.op = "tally_webhook" /\ ret'.result = "rejected"
              /\ outbox' = outbox
              /\ tasks' = tasks
              /\ users' = users
              /\ purchases' = purchases
              /\ credit_usage' = credit_usage
              /\ debited' = debited /\ credited' = credited]_vars

\* A submission without consent has just been rejected for an account that
\* is unlimited and has a balance; nothing was ever scheduled.
C26_Witness ==
    /\ ret.op = "tally_webhook" /\ ret.result = "rejected"
    /\ Exists(ret.user)
    /\ users[ret.user].is_unlimited /\ users[ret.user].credits >= 1
    /\ outbox = EmptyBag /\ tasks = EmptyBag /\ credit_usage = EmptyBag

\* C27: whenever no checkout-completed handler is in flight, also after one
\* has returned early or failed part-way, a Purchase of a one-time package
\* with positive credits is completed if and only if its credits have been
\* added to its account for it.
C27_CompletionIffGrant ==
    (\A t \in BagToSet(tasks) : t.kind # "checkout")
      => \A s \in DOMAIN purchases :
            OneTimeCredits(purchases[s].package_id) # {}
              => (purchases[s].status = "completed" <=> granted[s] >= 1)

(***************************************************************************)
(* Properties of the order of the subscription events.                     *)
(***************************************************************************)
\* C28: once the subscription-created and the subscription-deleted event of
\* an account have both been processed, one each and in either order, the
\* account is not unlimited and has no expiry.
C28_SubscriptionOrderInsensitive ==
    \A e \in DOMAIN users :
        processed[e] \in {<<"created", "deleted">>, <<"deleted", "created">>}
          => ~users[e].is_unlimited /\ users[e].unlimited_expires_at = {}

(***************************************************************************)
(* Frame of the ledger operations.                                         *)
(***************************************************************************)
SameButCredits(e) ==
    /\ users'[e].is_unlimited = users[e].is_unlimited
    /\ users'[e].unlimited_expires_at = users[e].unlimited_expires_at

\* C29: a step in which add_credits or deduct_credit changes a balance
\* leaves every account's flag and expiry, and every account but its
\* target, as they were; a step in which activate_subscription or
\* deactivate_subscription is applied leaves every balance, and every
\* account but its target, as they were; all of them leave the set of
\* accounts, every Purchase and every usage row unchanged.
C29_LedgerFrame ==
    [][/\ \A e \in Emails :
            (credited'[e] # credited[e] \/ debited'[e] # debited[e])
              => /\ DOMAIN users' = DOMAIN users
                 /\ \A o \in DOMAIN users :
                       /\ SameButCredits(o)
                       /\ o # e => users'[o] = users[o]
                 /\ purchases' = purchases
                 /\ credit_usage' = credit_usage
       /\ (ret'.op \in {"subscription_created", "subscription_deleted"}
           /\ ret'.result = "ok")
              => /\ DOMAIN users' = DOMAIN users
                 /\ \A o \in DOMAIN users :
                       /\ users'[o].credits = users[o].credits
                       /\ o # ret'.user => users'[o] = users[o]
                 /\ purchases' = purchases
                 /\ credit_usage' = credit_usage]_vars

\* A debit has just been made on one account while another account, which
\* is unlimited, and Purchases exist.
C29_Witness ==
    \E t \in BagToSet(tasks) :
        /\ t.kind = "submission" /\ t.pc = "log"
        /\ debited[t.user] = 1 /\ Metered(t.user)
        /\ \E o \in DOMAIN users \ {t.user} : users[o].is_unlimited
        /\ Cardinality(DOMAIN purchases) >= 2

\* C30: create_checkout_session for a package id that no package has, or
\* whose package is inactive, fails and creates neither an account nor a
\* Purchase; a Purchase is created only by a checkout for which the payment
\* provider returned a session, is the only one created then, is pending
\* and carries that session's id.
C30_CheckoutFailsCleanly ==
    [][/\ \A e \in Emails, p \in PackageIds \cup {"none"}, ok \in BOOLEAN :
            (/\ CreateCheckout(e, p, ok)
             /\ p \notin DOMAIN packages \/ ~packages[p].is_active)
              => /\ ret'.result \in {"not_found", "not_active"}
                 /\ users' = users
                 /\ purchases' = purchases
       /\ DOMAIN purchases' # DOMAIN purchases
            => /\ ret'.op = "create_checkout_session" /\ ret'.result = "ok"
               /\ \E s \in SessionIds \ DOMAIN purchases :
                     /\ DOMAIN purchases' = DOMAIN purchases \cup {s}
                     /\ purchases'[s].status = "pending"
                     /\ purchases'[s].user_id = ret'.user
                     /\ \A o \in DOMAIN purchases : purchases'[o] = purchases[o]
       /\ (ret'.op = "create_checkout_session" /\ ret'.result # "ok")
            => purchases' = purchases]_vars

\* A checkout of a package that has been deactivated after it was bought has
\* just failed, for an email that still has no account.
C30_Witness ==
    /\ ret.op = "create_checkout_session" /\ ret.result = "not_active"
    /\ ~Exists(ret.user)
    /\ \E s \in DOMAIN purchases : ~packages[purchases[s].package_id].is_active

====
